---- MODULE Spec2Model ----
(***************************************************************************)
(* Model of one upscale invocation of the image manager:                   *)
(* image_utils.upscale_image and the two upscalers it dispatches to,       *)
(* upscale_image_direct and upscale_image_tiled.                           *)
(*                                                                         *)
(* Images and tensors are modelled by their sizes, regions by half-open    *)
(* rectangles [x0, x1) x [y0, y1).  The inference session, the file system *)
(* and numpy are the environment: whether a call into them succeeds is a   *)
(* nondeterministic choice made where the code makes the call.             *)
(***************************************************************************)
EXTENDS Integers, Sequences, FiniteSets, TLC

(***************************************************************************)
(* Bounds of the model.                                                    *)
(***************************************************************************)
\* every image size W x H with 1 <= W, H <= MaxSmallDim is an input
MaxSmallDim == 5
\* the planner is also run on every size within PlannerSpan of the
\* 739 x 739 image that sits just under the memory ceiling at scale 4
PlannerSpan == 4
\* in the specification of the large tile grids at most MaxGridFailures
\* tiles of one invocation fail
MaxGridFailures == 1
\* the upscale action is triggered at most MaxUpscales times
MaxUpscales == 2

(***************************************************************************)
(* Program constants.                                                      *)
(***************************************************************************)
max_memory_mb == 100
tile_size == 512
overlap == 64
chunk_size == 500

\* scale factors of the models the session may really hold
ModelScales == {2, 4}

(***************************************************************************)
(* Model file paths, as sequences of characters.                           *)
(***************************************************************************)
ModelPaths ==
    { <<"m", "/", "e", "s", "r", "_", "x", "4", ".", "o", "n", "n", "x">>,
      <<"m", "/", "E", "S", "R", "_", "X", "2", ".", "o", "n", "n", "x">>,
      <<"x", "2", "/", "a", "n", "y", ".", "o", "n", "n", "x">>,
      <<"x", "4", "x", "2", ".", "o", "n", "n", "x">>,
      <<"a", "2", "x", ".", "o", "n", "n", "x">>,
      <<"v", "1", ".", "x", "2", ".", "o", "n", "n", "x">> }

\* str.lower() on the characters that occur in ModelPaths
LowerChar(c) ==
    CASE c = "E" -> "e"
      [] c = "S" -> "s"
      [] c = "R" -> "r"
      [] c = "X" -> "x"
      [] OTHER -> c

Lower(str) == [i \in 1..Len(str) |-> LowerChar(str[i])]

\* index of the last occurrence of character c in str, 0 when absent
LastIndexOf(str, c) ==
    LET hits == {i \in 1..Len(str) : str[i] = c}
    IN  IF hits = {} THEN 0 ELSE CHOOSE i \in hits : \A j \in hits : j <= i

\* Path(p).name : the final path component
PathName(p) == SubSeq(p, LastIndexOf(p, "/") + 1, Len(p))

\* Path(p).stem : the final component without its last suffix
PathStem(p) ==
    LET name == PathName(p)
        dot  == LastIndexOf(name, ".")
    IN  IF dot > 1 /\ dot < Len(name) THEN SubSeq(name, 1, dot - 1) ELSE name

\* the Python test  sub in str
Contains(str, sub) ==
    \E i \in 1..(Len(str) - Len(sub) + 1) :
        SubSeq(str, i, i + Len(sub) - 1) = sub

\* a plausible slip: the two tests in the other order
get_model_scale_factor_x4_first(model_path_) ==
    LET model_name == Lower(PathStem(model_path_))
    IN  IF Contains(model_name, <<"x", "4">>) THEN 4
        ELSE IF Contains(model_name, <<"x", "2">>) THEN 2
        ELSE 4

get_model_scale_factor(model_path_) ==
    LET model_name == Lower(PathStem(model_path_))
    IN  IF Contains(model_name, <<"x", "2">>) THEN 2
        ELSE IF Contains(model_name, <<"x", "4">>) THEN 4
        ELSE 4

(***************************************************************************)
(* Image sizes offered to the invocation.                                  *)
(***************************************************************************)
LargeSizes ==
    { <<100, 100>>, <<513, 513>>, <<739, 739>>, <<739, 740>>,
      <<512, 1066>>, <<512, 1067>>, <<1024, 1024>>, <<1025, 577>>,
      <<1478, 1478>>, <<1478, 1479>> }

ImageSizes == ((1..MaxSmallDim) \X (1..MaxSmallDim)) \cup LargeSizes

PlannerSizes ==
    ImageSizes
    \cup (((739 - PlannerSpan)..(739 + PlannerSpan))
           \X ((739 - PlannerSpan)..(739 + PlannerSpan)))
    \cup { <<4000, 3000>>, <<3000, 4000>>, <<1, 4000>> }

(***************************************************************************)
(* Scale & memory planning (upscale_image).                                *)
(***************************************************************************)
expected_output_width(width, scale) == width * scale

expected_output_height(height, scale) == height * scale

\* expected_memory_mb is the real number
\*     (out_w * out_h * 3 * 4) / (1024 * 1024)
\* kept as the fraction ExpectedMemoryNum / ExpectedMemoryDen with the
\* factor 4 cancelled, so that a 16000 x 12000 output stays inside the
\* 32-bit integers of the model checker.  Python's int / int is correctly
\* rounded and every quotient here is exact in a double, so comparing the
\* fraction is comparing the float.
ExpectedMemoryNum(width, height, scale) ==
    expected_output_width(width, scale) * expected_output_height(height, scale) * 3

ExpectedMemoryDen == (1024 * 1024) \div 4

\* a plausible slip: the memory of the source image, not of the output
use_tiling_source_size(width, height, scale) ==
    ExpectedMemoryNum(width, height, 1) > max_memory_mb * ExpectedMemoryDen

use_tiling(width, height, scale) ==
    ExpectedMemoryNum(width, height, scale) > max_memory_mb * ExpectedMemoryDen

(***************************************************************************)
(* Padding to a multiple of the scale factor (both upscalers).             *)
(***************************************************************************)
\* a plausible slip: the remainder itself is taken as the padding
pad_remainder(dim, scale) == dim % scale

\* a plausible slip: the closing % scale_factor is forgotten
pad_unreduced(dim, scale) == scale - (dim % scale)

pad(dim, scale) == (scale - (dim % scale)) % scale

(***************************************************************************)
(* Tile geometry (upscale_image_tiled).                                    *)
(***************************************************************************)
Min(a, b) == IF a < b THEN a ELSE b

Max(a, b) == IF a > b THEN a ELSE b

\* a plausible slip: floor instead of ceiling
tiles_x_floor(width) == width \div tile_size

tiles_x(width) == (width + tile_size - 1) \div tile_size

tiles_y(height) == (height + tile_size - 1) \div tile_size

total_tiles(width, height) == tiles_x(width) * tiles_y(height)

x_start(tx) == tx * tile_size

y_start(ty) == ty * tile_size

\* a plausible slip: the last column of tiles is not clamped to the image
x_end_unclamped(tx, width) == x_start(tx) + tile_size

x_end(tx, width) == Min(x_start(tx) + tile_size, width)

y_end(ty, height) == Min(y_start(ty) + tile_size, height)

\* a plausible slip: the overlap is taken twice on the left
tile_x_start_twice_overlap(tx) == Max(0, x_start(tx) - 2 * overlap)

tile_x_start(tx) == Max(0, x_start(tx) - overlap)

tile_y_start(ty) == Max(0, y_start(ty) - overlap)

\* a plausible slip: the right edge of the crop box is not clamped
tile_x_end_unclamped(tx, width) == x_end(tx, width) + overlap

tile_x_end(tx, width) == Min(width, x_end(tx, width) + overlap)

tile_y_end(ty, height) == Min(height, y_end(ty, height) + overlap)

Rect(x0, y0, x1, y1) == [x0 |-> x0, y0 |-> y0, x1 |-> x1, y1 |-> y1]

\* the core region of tile (tx, ty), in source pixels
CoreRegion(tx, ty, width, height) ==
    Rect(x_start(tx), y_start(ty), x_end(tx, width), y_end(ty, height))

\* the region img.crop() reads for tile (tx, ty), in source pixels
ExtendedRegion(tx, ty, width, height) ==
    Rect(tile_x_start(tx), tile_y_start(ty),
         tile_x_end(tx, width), tile_y_end(ty, height))

\* a plausible slip: the crop box skips a full overlap on the left and at
\* the top, also where the extended region was clamped
CropBox_full_overlap(tx, ty, width, height, scale) ==
    LET crop_x_start == overlap * scale
        crop_y_start == overlap * scale
        crop_x_end   == crop_x_start
                          + (x_end(tx, width) * scale - x_start(tx) * scale)
        crop_y_end   == crop_y_start
                          + (y_end(ty, height) * scale - y_start(ty) * scale)
    IN  Rect(crop_x_start, crop_y_start, crop_x_end, crop_y_end)

\* lines 337-349: the box upscaled_tile.crop() reads, in pixels of the
\* upscaled tile
CropBox(tx, ty, width, height, scale) ==
    LET output_x_start == x_start(tx) * scale
        output_y_start == y_start(ty) * scale
        output_x_end   == x_end(tx, width) * scale
        output_y_end   == y_end(ty, height) * scale
        crop_x_start   == (x_start(tx) - tile_x_start(tx)) * scale
        crop_y_start   == (y_start(ty) - tile_y_start(ty)) * scale
        crop_x_end     == crop_x_start + (output_x_end - output_x_start)
        crop_y_end     == crop_y_start + (output_y_end - output_y_start)
    IN  Rect(crop_x_start, crop_y_start, crop_x_end, crop_y_end)

\* a plausible slip: the paste is placed at the origin of the extended
\* region instead of the origin of the core region
PasteRegion_at_extended_origin(tx, ty, width, height, scale) ==
    LET ox == tile_x_start(tx) * scale
        oy == tile_y_start(ty) * scale
        cw == x_end(tx, width) * scale - x_start(tx) * scale
        ch == y_end(ty, height) * scale - y_start(ty) * scale
    IN  Rect(ox, oy, ox + cw, oy + ch)

\* the rectangle of output_img that output_img.paste(cropped_tile, ...)
\* writes: cropped_tile has the size of the crop box, placed at
\* (output_x_start, output_y_start)
PasteRegion(tx, ty, width, height, scale) ==
    LET output_x_start == x_start(tx) * scale
        output_y_start == y_start(ty) * scale
        box            == CropBox(tx, ty, width, height, scale)
    IN  Rect(output_x_start, output_y_start,
             output_x_start + (box.x1 - box.x0),
             output_y_start + (box.y1 - box.y0))

\* a plausible slip: the division by total_tiles is forgotten
TileProgress_undivided(count, total) == 20 + count * 80

\* int(20 + (tile_count / total_tiles) * 80); the float expression and the
\* integer floor agree for every total_tiles below 3000
TileProgress(count, total) == 20 + (count * 80) \div total

(***************************************************************************)
(* State of one invocation of upscale_image(image_path, model_path,        *)
(* progress_callback).  The only caller, UpscaleThread.run, always passes  *)
(* a progress callback.                                                    *)
(***************************************************************************)
VARIABLES
    pc,              \* position of the invocation in the code
    model_path,      \* the model_path argument
    scale_factor,    \* scale factor derived from the file name, 0 before
    session,         \* "none" or "loaded": the ort.InferenceSession
    original_size,   \* size of the opened source image, NoSize before
    strategy,        \* "none", "direct" or "tiled": the upscaler entered
    img,             \* size of the image the upscaler works on (padded)
    tensor,          \* shape of the last tensor handed to session.run
    output,          \* shape of the output array of the direct path
    run_calls,       \* number of session.run calls made so far
    progress,        \* the values passed to progress_callback, in order
    failure,         \* the failure that ended or degraded the invocation
    tile_pos,        \* <<x, y>>: the grid position the tile loop is at
    tile_count,      \* tile_count of upscale_image_tiled
    cores,           \* core regions of the tiles enumerated so far
    crops,           \* boxes handed to img.crop for those tiles, in order
    pastes,          \* rectangles written by output_img.paste, in order
    failed_tiles,    \* grid positions of the tiles whose inference failed
    output_img,      \* size of the pre-allocated output image (tiled)
    result,          \* the value upscale_image returns
    thread,          \* "none", "running" or "finished": UpscaleThread.run
    terminal,        \* the finished / error signals the thread emitted
    image_path,      \* the image_path the thread was created with
    parked,          \* the other threads that are running, each with the
                     \* values of its own copies of the variables above
    viewer_image,    \* image_viewer.image_data: the image shown, or NoImage
    progress_bar,    \* value and visibility of the progress bar
    upscale_file_label, \* text and visibility of the label next to it
    started,         \* number of UpscaleThreads started so far
    handled,         \* how many of the thread's queued signals (its
                     \* progress values, then its terminal signal) the
                     \* main window has handled
    saved,           \* the upscaled images saved with their metadata
                     \* entries, in order
    hide_timers      \* single-shot timers that will hide bar and label

\* the main window and the threads that are not the one taking steps
ui_vars == << image_path, parked, viewer_image, progress_bar,
              upscale_file_label, started, handled, saved, hide_timers >>

\* the state outside the upscale_image call: the thread that makes it and
\* the main window
outer_vars == << thread, terminal, ui_vars >>

vars == << pc, model_path, scale_factor, session, original_size, strategy,
           img, tensor, output, run_calls, progress, failure, tile_pos,
           tile_count, cores, crops, pastes, failed_tiles, output_img,
           result, outer_vars >>

Size(w, h) == [width |-> w, height |-> h]

NoSize == Size(0, 0)

Pending == [kind |-> "pending", width |-> 0, height |-> 0]

\* the failure sentinel: upscale_image returns None
None == [kind |-> "none", width |-> 0, height |-> 0]

ImageOf(w, h) == [kind |-> "image", width |-> w, height |-> h]

\* an exception that leaves upscale_image instead of a return value
Raised == [kind |-> "exception", width |-> 0, height |-> 0]

original_width == original_size.width

original_height == original_size.height

\* progress_callback(value)
Report(value) == progress' = Append(progress, value)

\* An image file is named by the size of the image it holds; NoImage is
\* no file.
NoImage == << 0, 0 >>

\* progress_bar.setValue(0) and hide(), the state it is built in
HiddenBar == [value |-> 0, visible |-> FALSE]

HiddenLabel == [text |-> "", image |-> NoImage, visible |-> FALSE]

\* progress_bar.setValue(0) and show()
ShownBar == [value |-> 0, visible |-> TRUE]

\* the label names the image being upscaled
UpscalingLabel(image) ==
    [text |-> "Upscaling", image |-> image, visible |-> TRUE]

InitCommon ==
    /\ model_path \in ModelPaths
    /\ tensor = NoSize
    /\ output = NoSize
    /\ run_calls = 0
    /\ progress = << >>
    /\ failure = "none"
    /\ tile_pos = << 0, 0 >>
    /\ tile_count = 0
    /\ cores = << >>
    /\ crops = << >>
    /\ pastes = << >>
    /\ failed_tiles = {}
    /\ output_img = NoSize
    /\ result = Pending
    /\ terminal = << >>
    /\ handled = 0
    /\ saved = << >>
    /\ hide_timers = 0

\* The window while the only thread it has started is running on the image
\* it shows: upscale_image_dialog has shown the bar and the label.
OneThreadStarted ==
    /\ thread = "running"
    /\ parked = << >>
    /\ started = 1
    /\ viewer_image = image_path
    /\ progress_bar = ShownBar
    /\ upscale_file_label = UpscalingLabel(image_path)

\* one invocation on its own: the thread has been started with some image
\* file and some model file and is about to call upscale_image
Init ==
    /\ InitCommon
    /\ image_path \in ImageSizes
    /\ OneThreadStarted
    /\ pc = "start"
    /\ scale_factor = 0
    /\ session = "none"
    /\ original_size = NoSize
    /\ img = NoSize
    /\ strategy = "none"

\* return value: the invocation is over
Return(value) ==
    /\ result' = value
    /\ pc' = "done"

(***************************************************************************)
(* upscale_image                                                           *)
(***************************************************************************)
\* a plausible slip: the session is created before the path is checked
CheckModel_after_load ==
    /\ pc = "start"
    /\ scale_factor' = get_model_scale_factor(model_path)
    /\ \E exists \in BOOLEAN :
          IF exists
          THEN /\ pc' = "load_session"
               /\ UNCHANGED << result, failure, session >>
          ELSE /\ failure' = "model_not_found"
               /\ session' = "loaded"
               /\ Return(None)
    /\ UNCHANGED << model_path, original_size, strategy, img, tensor,
                    output, run_calls, progress, tile_pos, tile_count, cores, crops,
                    pastes, failed_tiles, output_img >>
    /\ UNCHANGED outer_vars

\* a plausible slip: the existence check sits outside the try block
CheckModel_uncaught ==
    /\ pc = "start"
    /\ scale_factor' = get_model_scale_factor(model_path)
    /\ \E exists \in BOOLEAN :
          IF exists
          THEN /\ pc' = "load_session"
               /\ UNCHANGED << result, failure >>
          ELSE /\ failure' = "model_not_found"
               /\ Return(Raised)
    /\ UNCHANGED << model_path, session, original_size, strategy, img, tensor,
                    output, run_calls, progress, tile_pos, tile_count, cores,
                    crops, pastes, failed_tiles, output_img >>
    /\ UNCHANGED outer_vars

\* lines 128-139: the scale factor, then Path(model_path).exists(); the
\* FileNotFoundError is caught by the handler of line 177
CheckModel ==
    /\ pc = "start"
    /\ scale_factor' = get_model_scale_factor(model_path)
    /\ \E exists \in BOOLEAN :
          IF exists
          THEN /\ pc' = "load_session"
               /\ UNCHANGED << result, failure >>
          ELSE /\ failure' = "model_not_found"
               /\ Return(None)
    /\ UNCHANGED << model_path, session, original_size, strategy, img, tensor,
                    output, run_calls, progress, tile_pos, tile_count, cores, crops,
                    pastes, failed_tiles, output_img >>
    /\ UNCHANGED outer_vars

\* a plausible slip: the failed load is logged and the code carries on
LoadSession_ignoring_failure ==
    /\ pc = "load_session"
    /\ \E accepted \in BOOLEAN :
          IF accepted
          THEN /\ session' = "loaded"
               /\ pc' = "open_image"
               /\ UNCHANGED << result, failure >>
          ELSE /\ failure' = "session_load"
               /\ pc' = "open_image"
               /\ UNCHANGED << result, session >>
    /\ UNCHANGED << model_path, scale_factor, original_size, strategy, img,
                    tensor, output, run_calls, progress, tile_pos, tile_count,
                    cores, crops, pastes, failed_tiles, output_img >>
    /\ UNCHANGED outer_vars

\* lines 141-145: ort.InferenceSession(...) either accepts the model file
\* or raises, and then upscale_image returns None
LoadSession ==
    /\ pc = "load_session"
    /\ \E accepted \in BOOLEAN :
          IF accepted
          THEN /\ session' = "loaded"
               /\ pc' = "open_image"
               /\ UNCHANGED << result, failure >>
          ELSE /\ failure' = "session_load"
               /\ UNCHANGED session
               /\ Return(None)
    /\ UNCHANGED << model_path, scale_factor, original_size, strategy, img,
                    tensor, output, run_calls, progress, tile_pos, tile_count,
                    cores, crops, pastes, failed_tiles, output_img >>
    /\ UNCHANGED outer_vars

\* lines 154-157: Image.open(image_path).convert("RGB"); an unreadable
\* image raises into the handler of line 177
OpenImage ==
    /\ pc = "open_image"
    /\ \/ /\ original_size' = Size(image_path[1], image_path[2])
          /\ img' = Size(image_path[1], image_path[2])
          /\ pc' = "plan"
          /\ UNCHANGED << result, failure >>
       \/ /\ failure' = "image_open"
          /\ Return(None)
          /\ UNCHANGED << original_size, img >>
    /\ UNCHANGED << model_path, scale_factor, session, strategy, tensor,
                    output, run_calls, progress, tile_pos, tile_count, cores, crops,
                    pastes, failed_tiles, output_img >>
    /\ UNCHANGED outer_vars

\* lines 159-175: choose the upscaler
Plan ==
    /\ pc = "plan"
    /\ IF use_tiling(original_width, original_height, scale_factor)
       THEN /\ strategy' = "tiled"
            /\ pc' = "tiled_setup"
       ELSE /\ strategy' = "direct"
            /\ pc' = "direct_pad"
    /\ UNCHANGED << model_path, scale_factor, session, original_size, img,
                    tensor, output, run_calls, progress, failure, tile_pos,
                    tile_count, cores, crops, pastes, failed_tiles, output_img,
                    result >>
    /\ UNCHANGED outer_vars

(***************************************************************************)
(* upscale_image_direct                                                    *)
(***************************************************************************)
\* lines 186-205: pad to a multiple of scale_factor, report 20
DirectPad ==
    /\ pc = "direct_pad"
    /\ LET pad_width  == pad(img.width, scale_factor)
           pad_height == pad(img.height, scale_factor)
       IN  img' = IF pad_width > 0 \/ pad_height > 0
                  THEN Size(img.width + pad_width, img.height + pad_height)
                  ELSE img
    /\ Report(20)
    /\ pc' = "direct_tensor"
    /\ UNCHANGED << model_path, scale_factor, session, original_size,
                    strategy, tensor, output, run_calls, failure, tile_pos,
                    tile_count, cores, crops, pastes, failed_tiles, output_img,
                    result >>
    /\ UNCHANGED outer_vars

\* a plausible slip: the report of 40 is left out
DirectTensor_unreported ==
    /\ pc = "direct_tensor"
    /\ tensor' = img
    /\ pc' = "direct_run"
    /\ UNCHANGED << model_path, scale_factor, session, original_size,
                    strategy, img, output, run_calls, progress, failure,
                    tile_pos, tile_count, cores, crops, pastes, failed_tiles,
                    output_img, result >>
    /\ UNCHANGED outer_vars

\* lines 207-215: the input tensor [1, 3, height, width], report 40
DirectTensor ==
    /\ pc = "direct_tensor"
    /\ tensor' = img
    /\ Report(40)
    /\ pc' = "direct_run"
    /\ UNCHANGED << model_path, scale_factor, session, original_size,
                    strategy, img, output, run_calls, failure, tile_pos,
                    tile_count, cores, crops, pastes, failed_tiles, output_img,
                    result >>
    /\ UNCHANGED outer_vars

\* a plausible slip: a failed inference is tried once more
DirectRun_retrying ==
    /\ pc = "direct_run"
    /\ run_calls' = run_calls + 1
    /\ \/ \E model_scale \in ModelScales :
             /\ output' = Size(tensor.width * model_scale,
                               tensor.height * model_scale)
             /\ Report(80)
             /\ pc' = "direct_post"
             /\ UNCHANGED << result, failure >>
       \/ /\ failure' = "inference"
          /\ IF run_calls = 0
             THEN /\ pc' = "direct_run"
                  /\ UNCHANGED result
             ELSE Return(None)
          /\ UNCHANGED << output, progress >>
    /\ UNCHANGED << model_path, scale_factor, session, original_size,
                    strategy, img, tensor, tile_pos, tile_count, cores, crops,
                    pastes, failed_tiles, output_img >>
    /\ UNCHANGED outer_vars

\* lines 217-226: the single session.run call.  The session returns an
\* array model_scale times the size of the tensor, where model_scale is the
\* scale of the model really held by the file; or it raises, and
\* upscale_image_direct returns None.  On success report 80.
DirectRun ==
    /\ pc = "direct_run"
    /\ run_calls' = run_calls + 1
    /\ \/ \E model_scale \in ModelScales :
             /\ output' = Size(tensor.width * model_scale,
                               tensor.height * model_scale)
             /\ Report(80)
             /\ pc' = "direct_post"
             /\ UNCHANGED << result, failure >>
       \/ /\ failure' = "inference"
          /\ Return(None)
          /\ UNCHANGED << output, progress >>
    /\ UNCHANGED << model_path, scale_factor, session, original_size,
                    strategy, img, tensor, tile_pos, tile_count, cores, crops,
                    pastes, failed_tiles, output_img >>
    /\ UNCHANGED outer_vars

\* lines 228-237: np.clip(output * 255.0, 0, 255).astype(np.uint8) on the
\* whole array; when it raises, the chunk-wise conversion is tried
DirectPost ==
    /\ pc = "direct_post"
    /\ \/ /\ pc' = "direct_crop"
          /\ UNCHANGED failure
       \/ /\ failure' = "postprocess"
          /\ pc' = "direct_chunks"
    /\ UNCHANGED << model_path, scale_factor, session, original_size,
                    strategy, img, tensor, output, run_calls, progress,
                    tile_pos, tile_count, cores, crops, pastes, failed_tiles,
                    output_img, result >>
    /\ UNCHANGED outer_vars

\* a plausible slip: the loop stops before a last chunk of fewer than
\* chunk_size rows
RECURSIVE ChunkRows_without_last(_, _)
ChunkRows_without_last(i, rows) ==
    IF i + chunk_size > rows THEN << >>
    ELSE << chunk_size >> \o ChunkRows_without_last(i + chunk_size, rows)

\* the row counts of output[i:i+chunk_size] for i in
\* range(0, rows, chunk_size), starting at row i
RECURSIVE ChunkRows(_, _)
ChunkRows(i, rows) ==
    IF i >= rows THEN << >>
    ELSE << Min(chunk_size, rows - i) >> \o ChunkRows(i + chunk_size, rows)

RECURSIVE SumSeq(_)
SumSeq(seq) == IF seq = << >> THEN 0 ELSE Head(seq) + SumSeq(Tail(seq))

\* lines 238-249: convert chunk by chunk and concatenate along the rows;
\* when this raises too, upscale_image_direct returns None
DirectChunks ==
    /\ pc = "direct_chunks"
    /\ \/ /\ output' = Size(output.width, SumSeq(ChunkRows(0, output.height)))
          /\ pc' = "direct_crop"
          /\ UNCHANGED << result, failure >>
       \/ /\ failure' = "chunks"
          /\ Return(None)
          /\ UNCHANGED output
    /\ UNCHANGED << model_path, scale_factor, session, original_size,
                    strategy, img, tensor, run_calls, progress, tile_pos,
                    tile_count, cores, crops, pastes, failed_tiles, output_img >>
    /\ UNCHANGED outer_vars

\* a plausible slip: the padded result is returned as it is
CroppedSize_uncropped(out, expected_width, expected_height) == out

\* a plausible slip: "or" for "and", the image is cropped when it is large
\* enough in one dimension
CroppedSize_either(out, expected_width, expected_height) ==
    IF out.width >= expected_width \/ out.height >= expected_height
    THEN Size(expected_width, expected_height)
    ELSE out

\* lines 254-262: crop to the expected size when the image is large enough
CroppedSize(out, expected_width, expected_height) ==
    IF out.width >= expected_width /\ out.height >= expected_height
    THEN Size(expected_width, expected_height)
    ELSE out

\* lines 251-267: Image.fromarray, crop, report 100, return the image
DirectCrop ==
    /\ pc = "direct_crop"
    /\ LET expected_width  == original_width * scale_factor
           expected_height == original_height * scale_factor
           upscaled_img    == CroppedSize(output, expected_width, expected_height)
       IN  Return(ImageOf(upscaled_img.width, upscaled_img.height))
    /\ Report(100)
    /\ UNCHANGED << model_path, scale_factor, session, original_size,
                    strategy, img, tensor, output, run_calls, failure,
                    tile_pos, tile_count, cores, crops, pastes, failed_tiles,
                    output_img >>
    /\ UNCHANGED outer_vars

(***************************************************************************)
(* upscale_image_tiled                                                     *)
(***************************************************************************)
\* lines 277-296: the tile grid, the pre-allocated output image
TiledSetup ==
    /\ pc = "tiled_setup"
    /\ output_img' = Size(original_width * scale_factor,
                          original_height * scale_factor)
    /\ tile_count' = 0
    /\ tile_pos' = << 0, 0 >>
    /\ pc' = "tile_loop"
    /\ UNCHANGED << model_path, scale_factor, session, original_size,
                    strategy, img, tensor, output, run_calls, progress,
                    failure, cores, crops, pastes, failed_tiles, result >>
    /\ UNCHANGED outer_vars

\* for y in range(tiles_y): for x in range(tiles_x): the position after
\* <<x, y>>; the loop is over at <<0, tiles_y>>
NextTilePos(pos, width) ==
    IF pos[1] + 1 < tiles_x(width)
    THEN << pos[1] + 1, pos[2] >>
    ELSE << 0, pos[2] + 1 >>

InTileLoop ==
    /\ pc = "tile_loop"
    /\ tile_pos[2] < tiles_y(original_height)

\* lines 300-327: the tile with its overlap is cut out, padded and turned
\* into the tensor handed to session.run
TilePrepare ==
    LET ext == ExtendedRegion(tile_pos[1], tile_pos[2],
                              original_width, original_height)
        tile_width  == ext.x1 - ext.x0
        tile_height == ext.y1 - ext.y0
    IN  /\ tensor' = Size(tile_width + pad(tile_width, scale_factor),
                          tile_height + pad(tile_height, scale_factor))
        /\ cores' = Append(cores, CoreRegion(tile_pos[1], tile_pos[2],
                                             original_width, original_height))
        /\ crops' = Append(crops, ext)
        /\ run_calls' = run_calls + 1

\* a plausible slip: progress is computed from the number of the iteration
\* instead of tile_count
TileDone_counting_iterations ==
    /\ InTileLoop
    /\ TilePrepare
    /\ pastes' = Append(pastes, PasteRegion(tile_pos[1], tile_pos[2],
                                            original_width, original_height,
                                            scale_factor))
    /\ tile_count' = tile_count + 1
    /\ Report(TileProgress(Len(cores) + 1,
                           total_tiles(original_width, original_height)))
    /\ tile_pos' = NextTilePos(tile_pos, original_width)
    /\ UNCHANGED << pc, model_path, scale_factor, session, original_size,
                    strategy, img, output, failure, failed_tiles, output_img,
                    result >>
    /\ UNCHANGED outer_vars

\* lines 329-365: inference and post-processing of the tile succeed; its
\* core is cropped out and pasted, tile_count grows, progress is reported
TileDone ==
    /\ InTileLoop
    /\ TilePrepare
    /\ pastes' = Append(pastes, PasteRegion(tile_pos[1], tile_pos[2],
                                            original_width, original_height,
                                            scale_factor))
    /\ tile_count' = tile_count + 1
    /\ Report(TileProgress(tile_count + 1,
                           total_tiles(original_width, original_height)))
    /\ tile_pos' = NextTilePos(tile_pos, original_width)
    /\ UNCHANGED << pc, model_path, scale_factor, session, original_size,
                    strategy, img, output, failure, failed_tiles, output_img,
                    result >>
    /\ UNCHANGED outer_vars

\* a plausible slip: a failing tile ends the call as in the direct path
TileFailed_aborting ==
    /\ InTileLoop
    /\ TilePrepare
    /\ failed_tiles' = failed_tiles \cup { tile_pos }
    /\ failure' = "tile_inference"
    /\ Return(None)
    /\ UNCHANGED << model_path, scale_factor, session, original_size,
                    strategy, img, output, progress, tile_pos, tile_count,
                    pastes, output_img >>
    /\ UNCHANGED outer_vars

\* a plausible slip: break instead of continue, a failing tile ends the loop
TileFailed_breaking ==
    /\ InTileLoop
    /\ TilePrepare
    /\ failed_tiles' = failed_tiles \cup { tile_pos }
    /\ failure' = "tile_inference"
    /\ tile_pos' = << 0, tiles_y(original_height) >>
    /\ UNCHANGED << pc, model_path, scale_factor, session, original_size,
                    strategy, img, output, progress, tile_count, pastes,
                    output_img, result >>
    /\ UNCHANGED outer_vars

\* a plausible slip: the handler of a failing tile starts the output image
\* afresh, so that what was pasted before is lost
TileFailed_clearing ==
    /\ InTileLoop
    /\ TilePrepare
    /\ failed_tiles' = failed_tiles \cup { tile_pos }
    /\ failure' = "tile_inference"
    /\ pastes' = << >>
    /\ tile_pos' = NextTilePos(tile_pos, original_width)
    /\ UNCHANGED << pc, model_path, scale_factor, session, original_size,
                    strategy, img, output, progress, tile_count,
                    output_img, result >>
    /\ UNCHANGED outer_vars

\* lines 356-358: anything raised between session.run and the paste is
\* logged and the loop continues with the next tile
TileFailed ==
    /\ InTileLoop
    /\ TilePrepare
    /\ failed_tiles' = failed_tiles \cup { tile_pos }
    /\ failure' = "tile_inference"
    /\ tile_pos' = NextTilePos(tile_pos, original_width)
    /\ UNCHANGED << pc, model_path, scale_factor, session, original_size,
                    strategy, img, output, progress, tile_count, pastes,
                    output_img, result >>
    /\ UNCHANGED outer_vars

\* a plausible slip: the closing report is left to the last tile
TiledFinish_silent ==
    /\ pc = "tile_loop"
    /\ tile_pos[2] >= tiles_y(original_height)
    /\ Return(ImageOf(output_img.width, output_img.height))
    /\ UNCHANGED << model_path, scale_factor, session, original_size,
                    strategy, img, tensor, output, run_calls, progress,
                    failure, tile_pos, tile_count, cores, crops, pastes,
                    failed_tiles, output_img >>
    /\ UNCHANGED outer_vars

\* lines 367-371: report 100, return the output image
TiledFinish ==
    /\ pc = "tile_loop"
    /\ tile_pos[2] >= tiles_y(original_height)
    /\ Report(100)
    /\ Return(ImageOf(output_img.width, output_img.height))
    /\ UNCHANGED << model_path, scale_factor, session, original_size,
                    strategy, img, tensor, output, run_calls, failure,
                    tile_pos, tile_count, cores, crops, pastes, failed_tiles,
                    output_img >>
    /\ UNCHANGED outer_vars

\* lines 269-273: anything else raised inside upscale_image_direct (the
\* padded image, the tensor, np.squeeze, Image.fromarray) is caught by its
\* own handler, which returns None
DirectRaises ==
    /\ pc \in {"direct_pad", "direct_tensor", "direct_post", "direct_crop"}
    /\ failure' = "direct_exception"
    /\ Return(None)
    /\ UNCHANGED << model_path, scale_factor, session, original_size,
                    strategy, img, tensor, output, run_calls, progress,
                    tile_pos, tile_count, cores, crops, pastes, failed_tiles,
                    output_img >>
    /\ UNCHANGED outer_vars

\* lines 373-377: anything raised in upscale_image_tiled outside the
\* per-tile try (the output image, img.crop, the padded tile, the tensor)
\* is caught by its own handler, which returns None
TiledRaises ==
    /\ \/ pc = "tiled_setup"
       \/ InTileLoop
    /\ failure' = "tiled_exception"
    /\ Return(None)
    /\ UNCHANGED << model_path, scale_factor, session, original_size,
                    strategy, img, tensor, output, run_calls, progress,
                    tile_pos, tile_count, cores, crops, pastes, failed_tiles,
                    output_img >>
    /\ UNCHANGED outer_vars

(***************************************************************************)
(* UpscaleThread.run (main_window.py)                                      *)
(***************************************************************************)
\* the Python truth value of what upscale_image returned: a PIL image is
\* true, None is false
Truthy(value) == value.kind = "image"

\* a plausible slip: the else is missing, error is emitted in every case
RunEmit_without_else ==
    /\ pc = "done"
    /\ thread = "running"
    /\ terminal' = IF result.kind = "exception"
                   THEN Append(terminal, "error")
                   ELSE IF Truthy(result)
                        THEN terminal \o << "finished", "error" >>
                        ELSE Append(terminal, "error")
    /\ thread' = "finished"
    /\ UNCHANGED << pc, model_path, scale_factor, session, original_size,
                    strategy, img, tensor, output, run_calls, progress,
                    failure, tile_pos, tile_count, cores, crops, pastes,
                    failed_tiles, output_img, result >>
    /\ UNCHANGED ui_vars

\* lines 39-44: upscale_image has returned; finished is emitted with the
\* image, error when there is none or when an exception came out of it
RunEmit ==
    /\ pc = "done"
    /\ thread = "running"
    /\ terminal' = IF result.kind = "exception"
                   THEN Append(terminal, "error")
                   ELSE IF Truthy(result)
                        THEN Append(terminal, "finished")
                        ELSE Append(terminal, "error")
    /\ thread' = "finished"
    /\ UNCHANGED << pc, model_path, scale_factor, session, original_size,
                    strategy, img, tensor, output, run_calls, progress,
                    failure, tile_pos, tile_count, cores, crops, pastes,
                    failed_tiles, output_img, result >>
    /\ UNCHANGED ui_vars

(***************************************************************************)
(* Several threads.  Every UpscaleThread has its own image_path and         *)
(* model_path, and every call of upscale_image its own locals; the module   *)
(* has no variable that upscale_image writes.  The variables of the         *)
(* invocation layer are those of the thread that is taking steps; the other *)
(* running threads are in parked, and Switch lets another thread take the   *)
(* next steps.                                                              *)
(***************************************************************************)
\* what the thread taking steps holds
Context ==
    [ pc |-> pc,
      model_path |-> model_path,
      scale_factor |-> scale_factor,
      session |-> session,
      original_size |-> original_size,
      strategy |-> strategy,
      img |-> img,
      tensor |-> tensor,
      output |-> output,
      run_calls |-> run_calls,
      progress |-> progress,
      failure |-> failure,
      tile_pos |-> tile_pos,
      tile_count |-> tile_count,
      cores |-> cores,
      crops |-> crops,
      pastes |-> pastes,
      failed_tiles |-> failed_tiles,
      output_img |-> output_img,
      result |-> result,
      thread |-> thread,
      terminal |-> terminal,
      image_path |-> image_path,
      handled |-> handled ]

\* a thread that has just been started on an image file with a model file
UpscaleThread(image, model) ==
    [ pc |-> "start",
      model_path |-> model,
      scale_factor |-> 0,
      session |-> "none",
      original_size |-> NoSize,
      strategy |-> "none",
      img |-> NoSize,
      tensor |-> NoSize,
      output |-> NoSize,
      run_calls |-> 0,
      progress |-> << >>,
      failure |-> "none",
      tile_pos |-> << 0, 0 >>,
      tile_count |-> 0,
      cores |-> << >>,
      crops |-> << >>,
      pastes |-> << >>,
      failed_tiles |-> {},
      output_img |-> NoSize,
      result |-> Pending,
      thread |-> "running",
      terminal |-> << >>,
      image_path |-> image,
      handled |-> 0 ]

\* the thread that holds c takes the next steps
Resume(c) ==
    /\ pc' = c.pc
    /\ model_path' = c.model_path
    /\ scale_factor' = c.scale_factor
    /\ session' = c.session
    /\ original_size' = c.original_size
    /\ strategy' = c.strategy
    /\ img' = c.img
    /\ tensor' = c.tensor
    /\ output' = c.output
    /\ run_calls' = c.run_calls
    /\ progress' = c.progress
    /\ failure' = c.failure
    /\ tile_pos' = c.tile_pos
    /\ tile_count' = c.tile_count
    /\ cores' = c.cores
    /\ crops' = c.crops
    /\ pastes' = c.pastes
    /\ failed_tiles' = c.failed_tiles
    /\ output_img' = c.output_img
    /\ result' = c.result
    /\ thread' = c.thread
    /\ terminal' = c.terminal
    /\ image_path' = c.image_path
    /\ handled' = c.handled

\* a tile counter that the threads share: the next thread goes on with the
\* count of the last
Switch_sharing_tile_count ==
    /\ parked # << >>
    /\ parked' = IF thread = "running"
                 THEN Append(Tail(parked), Context)
                 ELSE Tail(parked)
    /\ Resume([Head(parked) EXCEPT !.tile_count = tile_count])
    /\ UNCHANGED << viewer_image, progress_bar, upscale_file_label, started,
                    saved, hide_timers >>

\* The scheduler lets the next running thread take the next steps.  The
\* thread that took the last steps waits behind the others if it is still
\* running; a thread that has finished takes no more steps.
Switch ==
    /\ parked # << >>
    /\ parked' = IF thread = "running"
                 THEN Append(Tail(parked), Context)
                 ELSE Tail(parked)
    /\ Resume(Head(parked))
    /\ UNCHANGED << viewer_image, progress_bar, upscale_file_label, started,
                    saved, hide_timers >>

(***************************************************************************)
(* The main window: selecting an image and triggering the upscale action.  *)
(***************************************************************************)
\* the image files of the gallery: one that is upscaled in one piece and
\* one that is upscaled in tiles by a model of scale 4
Library == { << 3, 5 >>, << 512, 1067 >> }

\* the model of the combo box: the models directory holds one model
ComboModels ==
    { <<"m", "/", "e", "s", "r", "_", "x", "4", ".", "o", "n", "n", "x">> }

\* MainWindow.on_image_selected: the gallery's selection changed to an
\* image or to nothing
OnImageSelected(image_data) ==
    /\ pc # "aborted"
    /\ progress_bar' = HiddenBar
    /\ upscale_file_label' = HiddenLabel
    /\ viewer_image' = image_data
    /\ UNCHANGED << pc, model_path, scale_factor, session, original_size,
                    strategy, img, tensor, output, run_calls, progress,
                    failure, tile_pos, tile_count, cores, crops, pastes,
                    failed_tiles, output_img, result, thread, terminal,
                    image_path, parked, started, handled, saved,
                    hide_timers >>

\* MainWindow.upscale_image_dialog, the upscale action triggered.  Without
\* an image it only shows a message.  Nothing in it looks at the thread it
\* started before: self.upscale_thread is given the new thread and the new
\* thread is started.  A thread that is still running then either runs on
\* (its run holds it) or is destroyed with the last reference to it, and
\* Qt aborts the process when a running QThread is destroyed.
UpscaleImageDialog ==
    /\ pc # "aborted"
    /\ started < MaxUpscales
    /\ viewer_image # NoImage
    /\ \/ /\ progress_bar' = ShownBar
          /\ upscale_file_label' = UpscalingLabel(viewer_image)
          /\ \E model \in ComboModels :
                Resume(UpscaleThread(viewer_image, model))
          /\ parked' = IF thread = "running"
                       THEN Append(parked, Context)
                       ELSE parked
          /\ started' = started + 1
          /\ UNCHANGED << viewer_image, saved, hide_timers >>
       \/ /\ thread = "running"
          /\ progress_bar' = ShownBar
          /\ upscale_file_label' = UpscalingLabel(viewer_image)
          /\ pc' = "aborted"
          /\ thread' = "none"
          /\ parked' = << >>
          /\ started' = started + 1
          /\ UNCHANGED << model_path, scale_factor, session, original_size,
                          strategy, img, tensor, output, run_calls,
                          progress, failure, tile_pos, tile_count, cores,
                          crops, pastes, failed_tiles, output_img, result,
                          terminal, image_path, viewer_image, handled,
                          saved, hide_timers >>

(***************************************************************************)
(* The main window's slots for the signals of a thread.  The signals of a  *)
(* thread are queued to the main window and handled in the order they were *)
(* emitted: the progress values first, the terminal signal last.           *)
(***************************************************************************)
\* the label after on_upscale_finished: setText does not show or hide it
CompletedLabel(image) ==
    [text |-> "Completed", image |-> image,
     visible |-> upscale_file_label.visible]

\* the label after on_upscale_error
ErrorLabel ==
    [text |-> "Error", image |-> NoImage,
     visible |-> upscale_file_label.visible]

\* the saved image and its metadata entry: base_name is the stem of
\* current_image_data's original_filename with "_upscaled", the target
\* folder its subfolder; upscaled_from is the path the signal carries
SavedImage(current_image_data, original_path) ==
    [base_name_of |-> current_image_data,
     subfolder_of |-> current_image_data,
     upscaled_from |-> original_path]

\* upscale_progress is connected to progress_bar.setValue
SetProgressValue ==
    /\ thread # "none"
    /\ handled < Len(progress)
    /\ progress_bar' = [progress_bar EXCEPT !.value = progress[handled + 1]]
    /\ handled' = handled + 1
    /\ UNCHANGED << pc, model_path, scale_factor, session, original_size,
                    strategy, img, tensor, output, run_calls, progress,
                    failure, tile_pos, tile_count, cores, crops, pastes,
                    failed_tiles, output_img, result, thread, terminal,
                    image_path, parked, viewer_image, upscale_file_label,
                    started, saved, hide_timers >>

\* the terminal signal of the thread is the next to be handled
TerminalIsNext(kind) ==
    /\ terminal = << kind >>
    /\ handled = Len(progress)

\* MainWindow.on_upscale_finished.  current_image_data is what the viewer
\* shows now.  When the viewer shows nothing it is None and
\* current_image_data.get raises: the slot ends there, after setValue(100).
\* Otherwise the image of the signal, which is never falsy, is saved under
\* the name and in the subfolder of current_image_data.
OnUpscaleFinished ==
    /\ TerminalIsNext("finished")
    /\ progress_bar' = [progress_bar EXCEPT !.value = 100]
    /\ IF viewer_image = NoImage
       THEN UNCHANGED << upscale_file_label, saved >>
       ELSE /\ upscale_file_label' = CompletedLabel(viewer_image)
            /\ saved' = Append(saved, SavedImage(viewer_image, image_path))
    /\ handled' = handled + 1
    /\ UNCHANGED << pc, model_path, scale_factor, session, original_size,
                    strategy, img, tensor, output, run_calls, progress,
                    failure, tile_pos, tile_count, cores, crops, pastes,
                    failed_tiles, output_img, result, thread, terminal,
                    image_path, parked, viewer_image, started, hide_timers >>

\* MainWindow.on_upscale_error
OnUpscaleError ==
    /\ TerminalIsNext("error")
    /\ progress_bar' = [progress_bar EXCEPT !.value = 0]
    /\ upscale_file_label' = ErrorLabel
    /\ hide_timers' = hide_timers + 1
    /\ handled' = handled + 1
    /\ UNCHANGED << pc, model_path, scale_factor, session, original_size,
                    strategy, img, tensor, output, run_calls, progress,
                    failure, tile_pos, tile_count, cores, crops, pastes,
                    failed_tiles, output_img, result, thread, terminal,
                    image_path, parked, viewer_image, started, saved >>

\* QTimer.singleShot(2000, ...) of on_upscale_error fires
HideTimerFires ==
    /\ hide_timers > 0
    /\ hide_timers' = hide_timers - 1
    /\ progress_bar' = [progress_bar EXCEPT !.visible = FALSE]
    /\ upscale_file_label' = [upscale_file_label EXCEPT !.visible = FALSE]
    /\ UNCHANGED << pc, model_path, scale_factor, session, original_size,
                    strategy, img, tensor, output, run_calls, progress,
                    failure, tile_pos, tile_count, cores, crops, pastes,
                    failed_tiles, output_img, result, thread, terminal,
                    image_path, parked, viewer_image, started, handled,
                    saved >>

(***************************************************************************)
(* Specifications.                                                         *)
(***************************************************************************)
Next ==
    \/ CheckModel
    \/ LoadSession
    \/ OpenImage
    \/ Plan
    \/ DirectPad
    \/ DirectTensor
    \/ DirectRun
    \/ DirectPost
    \/ DirectChunks
    \/ DirectCrop
    \/ TiledSetup
    \/ TileDone
    \/ TileFailed
    \/ TiledFinish
    \/ DirectRaises
    \/ TiledRaises
    \/ RunEmit

Spec == Init /\ [][Next]_vars

\* The same with a worker thread that keeps being scheduled and an
\* inference engine whose every call returns: a step that can be taken is
\* taken in the end.
\* It is run on two small image files, one that needs no padding and one
\* that is padded, and on two large ones, of three and of nine tiles, with
\* one model of each scale factor.
LiveSizes == { <<4, 4>>, <<3, 5>>, <<512, 1067>>, <<1478, 1479>> }

LiveModelPaths ==
    { <<"m", "/", "e", "s", "r", "_", "x", "4", ".", "o", "n", "n", "x">>,
      <<"m", "/", "E", "S", "R", "_", "X", "2", ".", "o", "n", "n", "x">> }

InitLive ==
    /\ Init
    /\ image_path \in LiveSizes
    /\ model_path \in LiveModelPaths

SpecLive == InitLive /\ [][Next]_vars /\ WF_vars(Next)

\* The planner alone, entered with the image already opened: every size of
\* PlannerSizes, under the scale factor of every model path.
InitPlanner ==
    /\ InitCommon
    /\ pc = "plan"
    /\ scale_factor = get_model_scale_factor(model_path)
    /\ session = "loaded"
    /\ \E size \in PlannerSizes : original_size = Size(size[1], size[2])
    /\ img = original_size
    /\ strategy = "none"
    /\ image_path = << original_width, original_height >>
    /\ OneThreadStarted

NextPlanner == Plan

SpecPlanner == InitPlanner /\ [][NextPlanner]_vars

\* The tiled upscaler on large grids, entered as Plan enters it.  A grid of
\* 48 tiles has too many sets of failing tiles to go through them all, so
\* the number of failing tiles is capped here.
GridSizes ==
    { <<4000, 3000>>, <<1536, 1024>>, <<1025, 577>>, <<512, 1067>> }

\* one model of each scale factor
GridModelPaths ==
    { <<"m", "/", "e", "s", "r", "_", "x", "4", ".", "o", "n", "n", "x">>,
      <<"m", "/", "E", "S", "R", "_", "X", "2", ".", "o", "n", "n", "x">> }

InitGrid ==
    /\ InitCommon
    /\ model_path \in GridModelPaths
    /\ pc = "tiled_setup"
    /\ scale_factor = get_model_scale_factor(model_path)
    /\ session = "loaded"
    /\ \E size \in GridSizes :
          /\ use_tiling(size[1], size[2], scale_factor)
          /\ original_size = Size(size[1], size[2])
    /\ img = original_size
    /\ strategy = "tiled"
    /\ image_path = << original_width, original_height >>
    /\ OneThreadStarted

GridTileFailed ==
    /\ Cardinality(failed_tiles) < MaxGridFailures
    /\ TileFailed

NextGrid ==
    \/ TiledSetup
    \/ TileDone
    \/ GridTileFailed
    \/ TiledFinish
    \/ TiledRaises
    \/ RunEmit

SpecGrid == InitGrid /\ [][NextGrid]_vars

\* Two threads that run upscale_image at the same time, each on its own
\* image file with its own model file.
PairFiles == Library

InitPair ==
    /\ InitCommon
    /\ model_path \in GridModelPaths
    /\ image_path \in PairFiles
    /\ thread = "running"
    /\ pc = "start"
    /\ scale_factor = 0
    /\ session = "none"
    /\ original_size = NoSize
    /\ img = NoSize
    /\ strategy = "none"
    /\ \E image \in PairFiles, model \in GridModelPaths :
          parked = << UpscaleThread(image, model) >>
    /\ started = 2
    /\ viewer_image = parked[1].image_path
    /\ progress_bar = ShownBar
    /\ upscale_file_label = UpscalingLabel(viewer_image)

NextPair ==
    \/ CheckModel
    \/ LoadSession
    \/ OpenImage
    \/ Plan
    \/ DirectPad
    \/ DirectTensor
    \/ DirectRun
    \/ DirectPost
    \/ DirectChunks
    \/ DirectCrop
    \/ TiledSetup
    \/ TileDone
    \/ TileFailed
    \/ TiledFinish
    \/ DirectRaises
    \/ TiledRaises
    \/ RunEmit
    \/ Switch

SpecPair == InitPair /\ [][NextPair]_vars

\* The main window from its start: no image is shown and no thread has
\* been started.
InitUI ==
    /\ InitCommon
    /\ model_path \in ComboModels
    /\ image_path = NoImage
    /\ thread = "none"
    /\ pc = "idle"
    /\ scale_factor = 0
    /\ session = "none"
    /\ original_size = NoSize
    /\ img = NoSize
    /\ strategy = "none"
    /\ parked = << >>
    /\ started = 0
    /\ viewer_image = NoImage
    /\ progress_bar = HiddenBar
    /\ upscale_file_label = HiddenLabel

NextUI ==
    \/ \E image_data \in Library \cup {NoImage} : OnImageSelected(image_data)
    \/ UpscaleImageDialog
    \/ CheckModel
    \/ LoadSession
    \/ OpenImage
    \/ Plan
    \/ DirectPad
    \/ DirectTensor
    \/ DirectRun
    \/ DirectPost
    \/ DirectChunks
    \/ DirectCrop
    \/ TiledSetup
    \/ TileDone
    \/ TileFailed
    \/ TiledFinish
    \/ DirectRaises
    \/ TiledRaises
    \/ RunEmit
    \/ Switch

SpecUI == InitUI /\ [][NextUI]_vars

\* The main window with the one thread it has started: the thread runs
\* upscale_image, its signals are handled by the window's slots, and the
\* user changes the selection of the gallery at any time.
InitWindow ==
    /\ InitCommon
    /\ model_path \in GridModelPaths
    /\ image_path \in Library
    /\ OneThreadStarted
    /\ pc = "start"
    /\ scale_factor = 0
    /\ session = "none"
    /\ original_size = NoSize
    /\ img = NoSize
    /\ strategy = "none"

NextWindow ==
    \/ \E image_data \in Library \cup {NoImage} : OnImageSelected(image_data)
    \/ SetProgressValue
    \/ OnUpscaleFinished
    \/ OnUpscaleError
    \/ HideTimerFires
    \/ CheckModel
    \/ LoadSession
    \/ OpenImage
    \/ Plan
    \/ DirectPad
    \/ DirectTensor
    \/ DirectRun
    \/ DirectPost
    \/ DirectChunks
    \/ DirectCrop
    \/ TiledSetup
    \/ TileDone
    \/ TileFailed
    \/ TiledFinish
    \/ DirectRaises
    \/ TiledRaises
    \/ RunEmit

SpecWindow == InitWindow /\ [][NextWindow]_vars

(***************************************************************************)
(* Helpers of the properties.                                              *)
(***************************************************************************)
Last(seq) == seq[Len(seq)]

Area(r) == (r.x1 - r.x0) * (r.y1 - r.y0)

NonEmptyRect(r) == r.x0 < r.x1 /\ r.y0 < r.y1

\* r lies inside the image [0, w) x [0, h)
InsideImage(r, w, h) == 0 <= r.x0 /\ r.x1 <= w /\ 0 <= r.y0 /\ r.y1 <= h

\* half-open rectangles share no pixel
DisjointRects(r, q) ==
    r.x1 <= q.x0 \/ q.x1 <= r.x0 \/ r.y1 <= q.y0 \/ q.y1 <= r.y0

PairwiseDisjoint(rects) ==
    \A i, j \in 1..Len(rects) : i < j => DisjointRects(rects[i], rects[j])

RECURSIVE TotalArea(_)
TotalArea(rects) ==
    IF rects = << >> THEN 0 ELSE Area(Head(rects)) + TotalArea(Tail(rects))

\* Non-empty rectangles inside a w x h image that are pairwise disjoint and
\* whose areas add up to w * h leave no pixel out: every pixel of the image
\* lies in exactly one of them.
Partitions(rects, w, h) ==
    /\ \A i \in 1..Len(rects) :
          NonEmptyRect(rects[i]) /\ InsideImage(rects[i], w, h)
    /\ PairwiseDisjoint(rects)
    /\ TotalArea(rects) = w * h

TileLoopOver ==
    /\ strategy = "tiled"
    /\ pc \in {"tile_loop", "done"}
    /\ tile_pos[2] >= tiles_y(original_height)

\* grid position of the i-th tile of a row-major enumeration
GridX(i) == (i - 1) % tiles_x(original_width)

GridY(i) == (i - 1) \div tiles_x(original_width)

(***************************************************************************)
(* C1                                                                      *)
(***************************************************************************)
\* whole megabytes and remaining quarter-bytes of the expected memory
\* (W*s)*(H*s)*3*4 bytes of the opened image
WholeMB == ((original_width * scale_factor) * (original_height * scale_factor) * 3)
              \div 262144

RestOfMB == ((original_width * scale_factor) * (original_height * scale_factor) * 3)
              % 262144

\* C1: for every source size and scale factor 2 or 4, the tiled upscaler is
\* chosen exactly when the expected memory (W*s)*(H*s)*3*4 / (1024*1024) is
\* strictly more than 100 MB, the direct one otherwise; 100x100 at scale 4
\* goes direct and 4000x3000 at scale 4 is tiled.
C1_TiledIffOver100MB ==
    strategy # "none" =>
        /\ scale_factor \in {2, 4}
        /\ strategy = "tiled" <=> (WholeMB > 100 \/ (WholeMB = 100 /\ RestOfMB > 0))
        /\ strategy = "direct" <=> (WholeMB < 100 \/ (WholeMB = 100 /\ RestOfMB = 0))
        /\ (original_size = Size(100, 100) /\ scale_factor = 4) => strategy = "direct"
        /\ (original_size = Size(4000, 3000) /\ scale_factor = 4) => strategy = "tiled"

C1_Witness ==
    /\ strategy = "tiled"
    /\ original_size = Size(4000, 3000)
    /\ scale_factor = 4

(***************************************************************************)
(* C2                                                                      *)
(***************************************************************************)
\* the model returned an output scale_factor times the size of the padded
\* input
ModelOutputConforms ==
    output = Size(tensor.width * scale_factor, tensor.height * scale_factor)

\* C2: when inference succeeds with an output scale_factor times the padded
\* input, the image upscale_image_direct returns has size exactly
\* (W*s, H*s), whatever padding was added.
C2_DirectOutputSize ==
    (/\ pc = "done"
     /\ strategy = "direct"
     /\ result.kind = "image"
     /\ ModelOutputConforms)
    => result = ImageOf(original_width * scale_factor,
                        original_height * scale_factor)

C2_Witness ==
    /\ pc = "done"
    /\ strategy = "direct"
    /\ result.kind = "image"
    /\ ModelOutputConforms
    /\ img.width > original_width
    /\ img.height > original_height

(***************************************************************************)
(* C3                                                                      *)
(***************************************************************************)
\* C3: the core regions [x*512, min((x+1)*512, W)) x [y*512, min((y+1)*512, H))
\* of the tiles upscale_image_tiled enumerates partition the source image:
\* none is empty, no two overlap, and every source pixel lies in exactly
\* one of them.
C3_CoresPartitionSource ==
    strategy = "tiled" =>
        /\ \A i \in 1..Len(cores) :
              /\ cores[i] = Rect(GridX(i) * 512, GridY(i) * 512,
                                 Min((GridX(i) + 1) * 512, original_width),
                                 Min((GridY(i) + 1) * 512, original_height))
              /\ NonEmptyRect(cores[i])
              /\ InsideImage(cores[i], original_width, original_height)
        /\ PairwiseDisjoint(cores)
        /\ TileLoopOver => Partitions(cores, original_width, original_height)

C3_Witness ==
    /\ TileLoopOver
    /\ Len(cores) >= 6
    /\ original_width % 512 # 0
    /\ original_height % 512 # 0

(***************************************************************************)
(* C4                                                                      *)
(***************************************************************************)
\* C4: when every tile's inference succeeds, each pixel of the (W*s, H*s)
\* output image is written by exactly one paste: the pasted rectangles are
\* the core regions scaled by s, lie inside the output image, are pairwise
\* disjoint and together cover it.
C4_PastesPartitionOutput ==
    (strategy = "tiled" /\ failed_tiles = {} /\ failure = "none") =>
        /\ Len(pastes) = Len(cores)
        /\ \A i \in 1..Len(pastes) :
              /\ pastes[i] = Rect(cores[i].x0 * scale_factor,
                                  cores[i].y0 * scale_factor,
                                  cores[i].x1 * scale_factor,
                                  cores[i].y1 * scale_factor)
              /\ InsideImage(pastes[i], output_img.width, output_img.height)
        /\ PairwiseDisjoint(pastes)
        /\ pc = "done" =>
              /\ result = ImageOf(original_width * scale_factor,
                                  original_height * scale_factor)
              /\ Partitions(pastes, result.width, result.height)

C4_Witness ==
    /\ pc = "done"
    /\ strategy = "tiled"
    /\ failed_tiles = {}
    /\ Len(pastes) >= 6
    /\ original_width % 512 # 0

(***************************************************************************)
(* C5                                                                      *)
(***************************************************************************)
\* C5: within one invocation, direct or tiled, succeeding or failing, with
\* any pattern of failing tiles, every value passed to the progress
\* callback is an integer in 0..100 and the reported values never decrease.
C5_ProgressMonotone ==
    /\ \A i \in 1..Len(progress) : progress[i] \in 0..100
    /\ \A i \in 1..(Len(progress) - 1) : progress[i] <= progress[i + 1]

C5_Witness ==
    /\ pc = "done"
    /\ strategy = "tiled"
    /\ failed_tiles # {}
    /\ Len(progress) >= 4

(***************************************************************************)
(* C6                                                                      *)
(***************************************************************************)
\* C6 as stated: in every upscale invocation the final value reported
\* through the progress callback is 100.
C6_EveryInvocationEndsAt100 ==
    pc = "done" => (progress # << >> /\ Last(progress) = 100)

\* C6, amended: in every upscale invocation that returns an image the final
\* value reported through the progress callback is 100.
C6_ImageEndsAt100 ==
    (pc = "done" /\ result.kind = "image")
    => (progress # << >> /\ Last(progress) = 100)

C6_Witness ==
    /\ pc = "done"
    /\ result.kind = "image"
    /\ strategy = "tiled"
    /\ tile_count < total_tiles(original_width, original_height)
    /\ Last(progress) = 100

(***************************************************************************)
(* C7                                                                      *)
(***************************************************************************)
\* C7: in upscale_image_tiled the inference failure of any subset of the
\* tiles, all of them included, is not fatal: the loop goes on through the
\* remaining tiles, the call returns an image of size exactly (W*s, H*s)
\* and 100 is the last progress value.
C7_TileFailureNotFatal ==
    (strategy = "tiled" /\ failed_tiles # {} /\ failure = "tile_inference") =>
        /\ result.kind # "none"
        /\ pc \in {"tile_loop", "done"}
        /\ pc = "done" =>
              /\ Len(cores) = total_tiles(original_width, original_height)
              /\ run_calls = total_tiles(original_width, original_height)
              /\ tile_count + Cardinality(failed_tiles)
                    = total_tiles(original_width, original_height)
              /\ result = ImageOf(original_width * scale_factor,
                                  original_height * scale_factor)
              /\ progress # << >>
              /\ Last(progress) = 100

C7_Witness ==
    /\ pc = "done"
    /\ strategy = "tiled"
    /\ Cardinality(failed_tiles) = total_tiles(original_width, original_height)
    /\ Cardinality(failed_tiles) >= 4
    /\ result.kind = "image"

(***************************************************************************)
(* C8                                                                      *)
(***************************************************************************)
\* C8: when the single inference call of upscale_image_direct fails, the
\* whole operation fails: None is returned, the inference is not tried
\* again and no progress value follows the 40 reported before it.
C8_DirectInferenceFailureAborts ==
    failure = "inference" =>
        /\ strategy = "direct"
        /\ pc = "done"
        /\ result = None
        /\ run_calls = 1
        /\ progress = << 20, 40 >>

C8_Witness ==
    /\ failure = "inference"
    /\ pc = "done"
    /\ img.width > original_width

(***************************************************************************)
(* C9                                                                      *)
(***************************************************************************)
\* C9: when the model path does not exist, upscale_image returns None
\* before a session is loaded, before the image is opened and before any
\* inference, and no progress value is reported.
C9_ModelNotFoundAborts ==
    failure = "model_not_found" =>
        /\ pc = "done"
        /\ result = None
        /\ session = "none"
        /\ original_size = NoSize
        /\ strategy = "none"
        /\ run_calls = 0
        /\ progress = << >>

C9_Witness ==
    /\ failure = "model_not_found"
    /\ pc = "done"
    /\ scale_factor = 2

(***************************************************************************)
(* C10                                                                     *)
(***************************************************************************)
\* C10: when the inference engine rejects the model file, upscale_image
\* returns None: neither upscaler is entered, no inference runs and no
\* progress value is reported.
C10_SessionLoadFailureAborts ==
    failure = "session_load" =>
        /\ pc = "done"
        /\ result = None
        /\ session = "none"
        /\ strategy = "none"
        /\ run_calls = 0
        /\ progress = << >>

C10_Witness ==
    /\ failure = "session_load"
    /\ pc = "done"
    /\ scale_factor = 4

(***************************************************************************)
(* C11                                                                     *)
(***************************************************************************)
\* the failures that end the invocation, as against those it survives
FatalFailures ==
    { "model_not_found", "session_load", "image_open", "inference", "chunks",
      "direct_exception", "tiled_exception" }

\* C11: whatever fails inside an invocation (missing model, session load,
\* unreadable image, inference, post-processing), no exception leaves
\* upscale_image: what it hands back is an image or None, and None after
\* every failure that ends it.
C11_NoExceptionEscapes ==
    /\ result.kind \in {"pending", "image", "none"}
    /\ pc = "done" => result.kind \in {"image", "none"}
    /\ failure \in FatalFailures => (pc = "done" /\ result = None)
    /\ terminal # << >> => result.kind \in {"image", "none"}

C11_Witness ==
    /\ pc = "done"
    /\ failure = "direct_exception"
    /\ progress = << 20, 40, 80 >>
    /\ result = None

(***************************************************************************)
(* C12                                                                     *)
(***************************************************************************)
\* C12: every tensor handed to session.run, in the direct path and for
\* every tile of the tiled path, edge tiles with asymmetric overlap
\* included, has a height and a width that are exact multiples of the
\* scale factor.
C12_TensorMultipleOfScale ==
    run_calls > 0 =>
        /\ tensor.width > 0
        /\ tensor.height > 0
        /\ tensor.width % scale_factor = 0
        /\ tensor.height % scale_factor = 0

\* an edge tile with asymmetric overlap whose width had to be padded
C12_Witness ==
    /\ strategy = "tiled"
    /\ run_calls > 0
    /\ crops # << >>
    /\ LET e == Last(crops)
           c == Last(cores)
       IN  /\ (e.x1 - e.x0) % scale_factor # 0
           /\ c.x0 - e.x0 # e.x1 - c.x1
           /\ tensor.width > e.x1 - e.x0

(***************************************************************************)
(* C13                                                                     *)
(***************************************************************************)
\* position of the last "/" and of the last "." of the model path
LastSlash == LastIndexOf(model_path, "/")

LastDot == LastIndexOf(model_path, ".")

\* the stem of the file name holds "x2" as written, in lower case
StemHasLowerX2 ==
    \E i \in (LastSlash + 1)..(LastDot - 2) :
        model_path[i] = "x" /\ model_path[i + 1] = "2"

\* the stem of the file name holds "x2" in either letter case
StemHasX2AnyCase ==
    \E i \in (LastSlash + 1)..(LastDot - 2) :
        model_path[i] \in {"x", "X"} /\ model_path[i + 1] = "2"

\* C13 as stated: a file name containing the substring "x2" yields 2, a
\* name containing "x4" or anything else yields 4.
C13_SubstringAsWritten ==
    scale_factor # 0 => scale_factor = (IF StemHasLowerX2 THEN 2 ELSE 4)

\* C13, amended: the scale factor comes from the stem of the model file
\* name alone, compared without regard to letter case: a stem containing
\* "x2" or "X2" yields 2, also when it contains "x4" as well, and every
\* other stem yields 4; the result is always 2 or 4.
C13_ScaleFromStemAnyCase ==
    scale_factor # 0 =>
        /\ scale_factor \in {2, 4}
        /\ scale_factor = (IF StemHasX2AnyCase THEN 2 ELSE 4)

C13_Witness ==
    /\ scale_factor = 2
    /\ model_path = <<"x", "4", "x", "2", ".", "o", "n", "n", "x">>

(***************************************************************************)
(* C18                                                                     *)
(***************************************************************************)
\* padded is d plus a padding pad with 0 <= pad < s, padded is a multiple
\* of s, and pad is 0 exactly when d already is one
PaddingFacts(d, padded, s) ==
    /\ 0 <= padded - d
    /\ padded - d < s
    /\ padded % s = 0
    /\ (padded - d = 0) <=> (d % s = 0)
    /\ padded - d = (s - (d % s)) % s

\* C18: for every dimension d and scale factor s in {2, 4} the padding
\* (s - (d % s)) % s satisfies 0 <= pad < s and (d + pad) % s = 0, and is 0
\* exactly when d is a multiple of s, in which case the image is left as it
\* is; 513 at s = 4 gives pad 3 and a padded size of 516.
C18_PaddingRule ==
    /\ (strategy = "direct" /\ progress # << >>) =>
          /\ PaddingFacts(original_width, img.width, scale_factor)
          /\ PaddingFacts(original_height, img.height, scale_factor)
          /\ (original_width % scale_factor = 0
              /\ original_height % scale_factor = 0) => img = original_size
          /\ (original_width = 513 /\ scale_factor = 4) => img.width = 516
    /\ (strategy = "tiled" /\ crops # << >>) =>
          /\ PaddingFacts(Last(crops).x1 - Last(crops).x0, tensor.width,
                          scale_factor)
          /\ PaddingFacts(Last(crops).y1 - Last(crops).y0, tensor.height,
                          scale_factor)

C18_Witness ==
    /\ strategy = "direct"
    /\ pc = "done"
    /\ original_size = Size(513, 513)
    /\ scale_factor = 4
    /\ img = Size(516, 516)

(***************************************************************************)
(* C19                                                                     *)
(***************************************************************************)
\* ceil(a / b): the least n with n * b >= a
CeilDiv(a, b) == CHOOSE n \in 0..a : n * b >= a /\ (n - 1) * b < a

\* C19: upscale_image_tiled processes exactly tiles_x * tiles_y tiles with
\* tiles_x = ceil(W/512) and tiles_y = ceil(H/512), 8 * 6 = 48 for
\* 4000x3000, in row-major order: row y left to right before row y+1, each
\* grid position exactly once.
C19_RowMajorGrid ==
    strategy = "tiled" =>
        LET tx == CeilDiv(original_width, 512)
            ty == CeilDiv(original_height, 512)
        IN  /\ run_calls = Len(cores)
            /\ Len(cores) <= tx * ty
            /\ \A i \in 1..Len(cores) :
                  /\ cores[i].x0 = ((i - 1) % tx) * 512
                  /\ cores[i].y0 = ((i - 1) \div tx) * 512
            /\ \A i, j \in 1..Len(cores) :
                  i < j => \/ cores[i].y0 < cores[j].y0
                           \/ /\ cores[i].y0 = cores[j].y0
                              /\ cores[i].x0 < cores[j].x0
            /\ TileLoopOver =>
                  /\ Len(cores) = tx * ty
                  /\ \A gx \in 0..(tx - 1), gy \in 0..(ty - 1) :
                        Cardinality({ i \in 1..Len(cores) :
                                        /\ cores[i].x0 = gx * 512
                                        /\ cores[i].y0 = gy * 512 }) = 1
            /\ original_size = Size(4000, 3000) =>
                  /\ tx = 8
                  /\ ty = 6
                  /\ TileLoopOver => Len(cores) = 48

C19_Witness ==
    /\ TileLoopOver
    /\ pc = "done"
    /\ original_size = Size(4000, 3000)
    /\ Len(cores) = 48
    /\ failed_tiles # {}

(***************************************************************************)
(* C20                                                                     *)
(***************************************************************************)
\* C20: for every tile the region read from the source is the core region
\* grown by 64 pixels on each side and clamped to the image: it lies in
\* [0, W) x [0, H), contains the core region, and reaches exactly 64 pixels
\* past the core on every side that is at least 64 pixels from the border,
\* less only where it is clamped.
C20_ExtendedRegionClamped ==
    strategy = "tiled" =>
        /\ Len(crops) = Len(cores)
        /\ \A i \in 1..Len(crops) :
              LET c == cores[i]
                  e == crops[i]
              IN  /\ InsideImage(e, original_width, original_height)
                  /\ e.x0 <= c.x0 /\ c.x1 <= e.x1
                  /\ e.y0 <= c.y0 /\ c.y1 <= e.y1
                  /\ c.x0 - e.x0 = (IF c.x0 >= 64 THEN 64 ELSE c.x0)
                  /\ c.y0 - e.y0 = (IF c.y0 >= 64 THEN 64 ELSE c.y0)
                  /\ e.x1 - c.x1 = (IF original_width - c.x1 >= 64
                                    THEN 64 ELSE original_width - c.x1)
                  /\ e.y1 - c.y1 = (IF original_height - c.y1 >= 64
                                    THEN 64 ELSE original_height - c.y1)

\* a tile with the full overlap on its left and a clamped one on its right
C20_Witness ==
    /\ strategy = "tiled"
    /\ \E i \in 1..Len(crops) :
          /\ cores[i].x0 - crops[i].x0 = 64
          /\ crops[i].x1 - cores[i].x1 \in 1..63
          /\ cores[i].y0 = crops[i].y0

(***************************************************************************)
(* C15                                                                     *)
(***************************************************************************)
\* C15: an invocation run by UpscaleThread sends the UI exactly one
\* terminal message, finished or error, never both and never neither; it is
\* finished exactly when upscale_image returned an image, and every
\* progress message is sent before it.
C15_OneTerminalMessage ==
    /\ [](/\ Len(terminal) <= 1
          /\ thread = "finished" <=> Len(terminal) = 1
          /\ terminal # << >> =>
                /\ pc = "done"
                /\ terminal[1] \in {"finished", "error"}
                /\ terminal[1] = "finished" <=> result.kind = "image")
    /\ [][terminal # << >> => (progress' = progress /\ terminal' = terminal)]_vars

C15_Witness ==
    /\ thread = "finished"
    /\ terminal = << "finished" >>
    /\ strategy = "tiled"
    /\ failed_tiles # {}
    /\ Len(progress) >= 3

(***************************************************************************)
(* C16                                                                     *)
(***************************************************************************)
\* C16: once started, an invocation always runs to a terminal outcome,
\* provided every inference call returns: nothing cancels it, the tile loop
\* makes exactly tiles_x * tiles_y iterations whether tiles succeed or
\* fail, and the invocation then ends with its terminal message.
C16_RunsToCompletion ==
    /\ <>(pc = "done" /\ result.kind \in {"image", "none"})
    /\ <>(thread = "finished" /\ Len(terminal) = 1)
    /\ [](pc = "done" => [](pc = "done"))
    /\ []((strategy = "tiled" /\ pc = "done" /\ result.kind = "image") =>
            /\ run_calls = total_tiles(original_width, original_height)
            /\ Len(cores) = total_tiles(original_width, original_height)
            /\ tile_count + Cardinality(failed_tiles)
                  = total_tiles(original_width, original_height))

C16_Witness ==
    /\ thread = "finished"
    /\ strategy = "tiled"
    /\ result.kind = "image"
    /\ run_calls = 9
    /\ Cardinality(failed_tiles) = 4

(***************************************************************************)
(* C14                                                                     *)
(***************************************************************************)
\* a thread whose call of upscale_image has not returned yet
Active(c) == c.thread = "running" /\ c.pc # "done"

\* the number of invocations that are under way
ActiveInvocations ==
    (IF Active(Context) THEN 1 ELSE 0)
      + Cardinality({ i \in 1..Len(parked) : Active(parked[i]) })

\* C14: at most one upscale invocation is under way at a time, also when
\* the upscale action is triggered again while an UpscaleThread is running.
\* The main window does not keep to this: triggered again, it starts a
\* second thread next to the first.
C14_AtMostOneInvocation == ActiveInvocations <= 1

(***************************************************************************)
(* C17                                                                     *)
(***************************************************************************)
\* what the tiled upscaler reports for its first n pasted tiles
TiledReports(n, total) == [k \in 1..n |-> TileProgress(k, total)]

\* What one invocation on its own ends with, as << result, progress >>:
\* its inputs are the image file and the model file, and fail and failed
\* say what went wrong for it (the failure that ended it or the last it
\* went through, and the tiles whose inference failed).
SoloOutcomes(image, model, fail, failed) ==
    LET W     == image[1]
        H     == image[2]
        s     == get_model_scale_factor(model)
        total == total_tiles(W, H)
        done  == total - Cardinality(failed)
        padded == Size(W + pad(W, s), H + pad(H, s))
    IN  CASE fail \in {"model_not_found", "session_load", "image_open"} ->
               { << None, << >> >> }
          [] fail = "inference" ->
               { << None, << 20, 40 >> >> }
          [] fail = "chunks" ->
               { << None, << 20, 40, 80 >> >> }
          [] fail = "direct_exception" ->
               { << None, SubSeq(<< 20, 40, 80 >>, 1, n) >> : n \in 0..3 }
          [] fail = "tiled_exception" ->
               { << None, TiledReports(n, total) >> : n \in 0..done }
          [] OTHER ->
               IF use_tiling(W, H, s)
               THEN { << ImageOf(W * s, H * s),
                         Append(TiledReports(done, total), 100) >> }
               ELSE { << ImageOf(CroppedSize(Size(padded.width * m,
                                                  padded.height * m),
                                             W * s, H * s).width,
                                 CroppedSize(Size(padded.width * m,
                                                  padded.height * m),
                                             W * s, H * s).height),
                         << 20, 40, 80, 100 >> >> : m \in ModelScales }

\* C17: two invocations that run at the same time share nothing they
\* write: whenever one of them returns, under every interleaving of their
\* steps, its image and its progress sequence are what it ends with on its
\* own image file and model file, whatever the other has done meanwhile.
C17_ConcurrentAsAlone ==
    pc = "done" =>
       << result, progress >>
          \in SoloOutcomes(image_path, model_path, failure, failed_tiles)

\* a tiled invocation returns its image while the other is in the middle of
\* its own tile loop, one tile pasted and one failed
C17_Witness ==
    /\ pc = "done"
    /\ strategy = "tiled"
    /\ result.kind = "image"
    /\ tile_count = 2
    /\ parked # << >>
    /\ parked[1].pc = "tile_loop"
    /\ parked[1].tile_count = 1
    /\ Cardinality(parked[1].failed_tiles) = 1

(***************************************************************************)
(* C21                                                                     *)
(***************************************************************************)
\* the size of the upscaled tile of an extended region: the region padded
\* to a multiple of the scale factor, times the scale factor
UpscaledTile(ext) ==
    LET tile_width  == ext.x1 - ext.x0
        tile_height == ext.y1 - ext.y0
    IN  Size((tile_width + pad(tile_width, scale_factor)) * scale_factor,
             (tile_height + pad(tile_height, scale_factor)) * scale_factor)

\* C21: for every tile handed to inference, the box cropped out of the
\* upscaled tile starts at (core origin - extended origin) * s, has the size
\* of the core times s, and lies inside the upscaled tile, whose size is the
\* padded extended size times s; so also for edge tiles, whose overlap is
\* not the same on both sides.
C21_CropInsideUpscaledTile ==
    strategy = "tiled" =>
        \A i \in 1..Len(cores) :
           LET c   == cores[i]
               e   == crops[i]
               box == CropBox(GridX(i), GridY(i), original_width,
                              original_height, scale_factor)
               up  == UpscaledTile(e)
           IN  /\ box.x0 = (c.x0 - e.x0) * scale_factor
               /\ box.y0 = (c.y0 - e.y0) * scale_factor
               /\ box.x1 - box.x0 = (c.x1 - c.x0) * scale_factor
               /\ box.y1 - box.y0 = (c.y1 - c.y0) * scale_factor
               /\ 0 <= box.x0 /\ box.x1 <= up.width
               /\ 0 <= box.y0 /\ box.y1 <= up.height

\* an edge tile has been handed to inference: the full overlap on its
\* left and above it, none on its right, and a tile that is padded
C21_Witness ==
    /\ strategy = "tiled"
    /\ \E i \in 1..Len(cores) :
          /\ cores[i].x0 - crops[i].x0 = 64
          /\ crops[i].x1 = cores[i].x1
          /\ cores[i].y0 - crops[i].y0 = 64
          /\ pad(crops[i].x1 - crops[i].x0, scale_factor) > 0

(***************************************************************************)
(* C22                                                                     *)
(***************************************************************************)
\* the rectangle of the output image that belongs to the tile at pos
OutputRect(pos) ==
    PasteRegion(pos[1], pos[2], original_width, original_height, scale_factor)

\* the positions of the tiles the loop has gone through
TilesVisited == { << GridX(i), GridY(i) >> : i \in 1..Len(cores) }

\* C22: a tile whose inference fails leaves its own rectangle of the output
\* image unset and changes nothing else.  The step of a failing tile leaves
\* the pasted rectangles, the output image, the tile counter, the reported
\* progress and the course of the call as they were; what was pasted stays
\* pasted; no paste touches the rectangle of a failed tile; and every tile
\* that did not fail, before or after a failing one, has its rectangle
\* pasted.
C22_FailedTileLeavesOnlyItsRectUnset ==
    /\ [](strategy = "tiled" =>
            /\ \A pos \in failed_tiles : \A j \in 1..Len(pastes) :
                  DisjointRects(OutputRect(pos), pastes[j])
            /\ \A pos \in TilesVisited \ failed_tiles :
                  \E j \in 1..Len(pastes) : pastes[j] = OutputRect(pos)
            /\ Len(pastes) = Len(cores) - Cardinality(failed_tiles))
    /\ [][/\ failed_tiles' # failed_tiles =>
               /\ pastes' = pastes
               /\ output_img' = output_img
               /\ tile_count' = tile_count
               /\ progress' = progress
               /\ pc' = pc /\ result' = result
           /\ Len(pastes') >= Len(pastes)
           /\ SubSeq(pastes', 1, Len(pastes)) = pastes]_vars

\* a grid of two by two tiles whose second tile failed: the first was pasted
\* before it and the third and fourth after it
C22_Witness ==
    /\ pc = "done"
    /\ strategy = "tiled"
    /\ result.kind = "image"
    /\ failed_tiles = { << 1, 0 >> }
    /\ Len(pastes) = 3
    /\ Len(cores) = 4

(***************************************************************************)
(* C23                                                                     *)
(***************************************************************************)
\* C23 as it is written: in the tile loop one progress value has been
\* reported for each iteration made, the value after the i-th iteration
\* being 20 + (i / total_tiles) * 80 truncated, and the values increase.
\* It fails at a tile whose inference fails: that iteration reports nothing
\* and is not counted.
C23_ReportAfterEveryIteration ==
    (strategy = "tiled" /\ pc = "tile_loop") =>
        /\ Len(progress) = Len(cores)
        /\ \A i \in 1..Len(progress) :
              progress[i] = TileProgress(i, total_tiles(original_width,
                                                        original_height))
        /\ \A i \in 1..(Len(progress) - 1) : progress[i] < progress[i + 1]

\* C23 amended: a progress value is reported after each tile that was
\* pasted and none after a tile that failed; the k-th value is
\* 20 + (k / total_tiles) * 80 truncated, k being the number of tiles
\* pasted so far; the values never decrease, and they increase in a grid of
\* at most 80 tiles.
C23_ReportAfterEveryPastedTile ==
    (strategy = "tiled" /\ pc = "tile_loop") =>
        LET total == total_tiles(original_width, original_height)
        IN  /\ Len(progress) = tile_count
            /\ tile_count = Len(cores) - Cardinality(failed_tiles)
            /\ tile_count = Len(pastes)
            /\ \A k \in 1..Len(progress) :
                  progress[k] = TileProgress(k, total)
            /\ \A k \in 1..(Len(progress) - 1) :
                  /\ progress[k] <= progress[k + 1]
                  /\ total <= 80 => progress[k] < progress[k + 1]

\* the loop has gone through a failing tile and pasted tiles before and
\* after it
C23_Witness ==
    /\ strategy = "tiled"
    /\ pc = "tile_loop"
    /\ failed_tiles = { << 1, 0 >> }
    /\ Len(cores) >= 3
    /\ Len(progress) = Len(cores) - 1

(***************************************************************************)
(* C24                                                                     *)
(***************************************************************************)
\* C24: a call of upscale_image_direct that returns an image has reported
\* exactly 20, 40, 80, 100 in this order: 20 when the image has been padded,
\* 40 when the tensor is built and inference has not been called yet, 80
\* when the one inference call has returned, and 100 with the cropped image
\* as the call returns.
C24_DirectReports20_40_80_100 ==
    strategy = "direct" =>
        /\ pc = "direct_pad" => progress = << >>
        /\ pc = "direct_tensor" =>
              /\ progress = << 20 >>
              /\ img.width % scale_factor = 0
              /\ img.height % scale_factor = 0
              /\ run_calls = 0
        /\ pc = "direct_run" =>
              /\ progress = << 20, 40 >>
              /\ tensor = img
              /\ run_calls = 0
        /\ pc \in {"direct_post", "direct_chunks", "direct_crop"} =>
              /\ progress = << 20, 40, 80 >>
              /\ run_calls = 1
        /\ (pc = "done" /\ result.kind = "image") =>
              /\ progress = << 20, 40, 80, 100 >>
              /\ run_calls = 1

\* a direct call on an image that had to be padded has returned its image
C24_Witness ==
    /\ pc = "done"
    /\ strategy = "direct"
    /\ result.kind = "image"
    /\ img # original_size
    /\ progress = << 20, 40, 80, 100 >>

(***************************************************************************)
(* C25                                                                     *)
(***************************************************************************)
\* C25: the image upscale_image_direct returns is the converted model
\* output cropped to (W*s, H*s) when that output is at least as wide and at
\* least as high; when it is smaller in width or in height it is returned
\* as it is, uncropped, and the call still returns an image and ends its
\* reports with 100.
C25_CropOnlyWhenLargeEnough ==
    (pc = "done" /\ strategy = "direct" /\ failure \in {"none", "postprocess"}) =>
        LET expected_width  == original_width * scale_factor
            expected_height == original_height * scale_factor
        IN  /\ result.kind = "image"
            /\ Last(progress) = 100
            /\ (output.width >= expected_width
                  /\ output.height >= expected_height)
                 => result = ImageOf(expected_width, expected_height)
            /\ (output.width < expected_width
                  \/ output.height < expected_height)
                 => result = ImageOf(output.width, output.height)

\* the model output is wide enough and not high enough: the image is
\* returned uncropped
C25_Witness ==
    /\ pc = "done"
    /\ strategy = "direct"
    /\ result.kind = "image"
    /\ output.width >= original_width * scale_factor
    /\ output.height < original_height * scale_factor
    /\ result = ImageOf(output.width, output.height)
    /\ Last(progress) = 100

(***************************************************************************)
(* C26                                                                     *)
(***************************************************************************)
\* the number of rows in the first n chunks
RowsBefore(chunks, n) == SumSeq(SubSeq(chunks, 1, n))

\* Row k (from 0) of the concatenated chunks is a row of the converted
\* j-th chunk, output[i:i+chunk_size] with i = (j - 1) * chunk_size; the
\* conversion works on each value by itself, so this is the conversion of
\* the row of output with the number given here.
SourceRow(chunks, k) ==
    LET j == CHOOSE n \in 1..Len(chunks) :
                RowsBefore(chunks, n - 1) <= k /\ k < RowsBefore(chunks, n)
    IN  (j - 1) * chunk_size + (k - RowsBefore(chunks, j - 1))

\* C26: when the conversion of the whole array has failed, the conversion
\* is done on consecutive chunks of 500 rows (the last may be shorter) and
\* their concatenation has the rows of the whole-array conversion, as many
\* and in the same order: row k of it is the converted row k of the model
\* output.  When the chunked conversion fails as well, the call returns no
\* image.
C26_ChunkedConversionSameRows ==
    /\ (strategy = "direct" /\ failure = "postprocess"
          /\ pc \in {"direct_crop", "done"}) =>
          LET rows   == output.height
              chunks == ChunkRows(0, rows)
          IN  /\ output.width * tensor.height = output.height * tensor.width
              /\ SumSeq(chunks) = rows
              /\ \A n \in 1..Len(chunks) :
                    /\ chunks[n] \in 1..500
                    /\ n < Len(chunks) => chunks[n] = 500
              /\ \A k \in 0..(rows - 1) : SourceRow(chunks, k) = k
    /\ failure = "chunks" => (pc = "done" /\ result = None)

\* the fallback has converted an output of more than 500 rows whose last
\* chunk is shorter than the others
C26_Witness ==
    /\ strategy = "direct"
    /\ failure = "postprocess"
    /\ pc = "done"
    /\ result.kind = "image"
    /\ Len(ChunkRows(0, output.height)) >= 3
    /\ output.height % 500 # 0

(***************************************************************************)
(* C27                                                                     *)
(***************************************************************************)
\* C27: in the tiled path the sub-image handed to inference is bounded
\* whatever the size of the source image: every extended region is at most
\* 512 + 64 + 64 = 640 pixels wide and high, and the padded tile, the tensor
\* of the inference call, is at most 640 x 640 for scale factors 2 and 4.
C27_TileAtMost640 ==
    strategy = "tiled" =>
        /\ tensor.width <= 640 /\ tensor.height <= 640
        /\ \A i \in 1..Len(crops) :
              LET tile_width  == crops[i].x1 - crops[i].x0
                  tile_height == crops[i].y1 - crops[i].y0
              IN  /\ tile_width <= 640 /\ tile_height <= 640
                  /\ tile_width + pad(tile_width, scale_factor) <= 640
                  /\ tile_height + pad(tile_height, scale_factor) <= 640

\* a tile in the middle of the 4000 x 3000 image: the bound is reached
C27_Witness ==
    /\ strategy = "tiled"
    /\ original_size = Size(4000, 3000)
    /\ tensor = Size(640, 640)

(***************************************************************************)
(* C28                                                                     *)
(***************************************************************************)
\* C28: every saved result is named and filed after the image whose upscale
\* was requested, the one the thread was started on, whatever the user
\* selected in the gallery meanwhile.  The slot names and files it after
\* the image the viewer shows when the finished signal is handled.
C28_SavedAfterRequestedImage ==
    \A i \in 1..Len(saved) :
        /\ saved[i].base_name_of = saved[i].upscaled_from
        /\ saved[i].subfolder_of = saved[i].upscaled_from

(***************************************************************************)
(* C29                                                                     *)
(***************************************************************************)
\* the window has handled the terminal signal of the thread
TerminalHandled == Len(terminal) = 1 /\ handled = Len(progress) + 1

\* C29: an invocation whose finished signal has been handled has its
\* upscaled image saved with one metadata entry, exactly one, whatever the
\* user did in the viewer while it ran, also when the selection was
\* cleared.  With nothing selected the slot raises before it saves.
C29_FinishedSavesOnce ==
    /\ Len(saved) <= 1
    /\ (TerminalHandled /\ terminal = << "finished" >>) => Len(saved) = 1

(***************************************************************************)
(* C30                                                                     *)
(***************************************************************************)
\* C30: from the start of the invocation until its terminal signal is
\* handled the progress bar stays visible and its value never decreases;
\* handling the finished signal leaves it at 100 and handling the error
\* signal at 0; and no signal of the invocation is handled after that.
\* Selecting an image while the thread runs hides the bar and sets it to 0.
C30_BarFollowsInvocation ==
    [][/\ ~TerminalHandled' =>
            /\ progress_bar'.visible
            /\ progress_bar'.value >= progress_bar.value
       /\ (~TerminalHandled /\ TerminalHandled') =>
            progress_bar'.value = (IF terminal = << "finished" >>
                                   THEN 100 ELSE 0)
       /\ TerminalHandled => handled' = handled]_vars

====
